---- MODULE Spec2Model ----
(***************************************************************************)
(* Audio deepfake detection agent.                                         *)
(*  - The orchestration engine (main.py): the process-wide pipeline state, *)
(*    the five tool wrappers and FeedbackUserProxyAgent.generate_reply,    *)
(*    which validates the agent's latest message, dispatches the tool of   *)
(*    the current step and advances or holds the step pointer (Spec,       *)
(*    LiveSpec).                                                           *)
(*  - The stage collaborators and the files they persist per audio base    *)
(*    filename (StageSpec).                                                *)
(*  - The helpers recognize_user_intent, normalize_path,                   *)
(*    extract_suspicious_segments and the anomaly tests of the report,     *)
(*    applied to bounded inputs (FnSpec).                                  *)
(***************************************************************************)
EXTENDS Integers, Sequences, FiniteSets, TLC

VARIABLES
    current_step,         \* main.py global current_step
    global_tool_results,  \* main.py global global_tool_results (a dict)
    tool_executed,        \* main.py global tool_executed (a list)
    chatting,             \* user_proxy.initiate_chat is running
    last_message,         \* messages[-1] handed to the last generate_reply
    reply,                \* what the last generate_reply returned
    dispatched,           \* tool function entered by the last generate_reply
    tool_result,          \* tool_result_dict of the last generate_reply
    collaborator_return,  \* what the stage called by the last generate_reply handed back
    requests,             \* detection requests started by start_detection_chat
    anti_spoof_json,      \* outputs/anti_spoof/<name>_anti_spoof.json
    asr_json,             \* outputs/asr/<name>_asr_diarization.json
    summary_json,         \* outputs/suspicious_features/<name>/suspicious_features_summary.json
    report_md,            \* outputs/reference_report/<name>_fake_detection_report.md
    last_run,             \* the latest stage call: stage, filename, what it returned
    recent,               \* per stage and filename: output of the most recent successful run
    fn_call,              \* a helper function and its argument
    fn_return             \* what the helper returned

engine_vars == <<current_step, global_tool_results, tool_executed, chatting,
                 last_message, reply, dispatched, tool_result,
                 collaborator_return, requests>>

stage_vars == <<anti_spoof_json, asr_json, summary_json, report_md, last_run, recent>>

fn_vars == <<fn_call, fn_return>>

vars == <<engine_vars, stage_vars, fn_vars>>

\* detection requests the user enters in one session
MaxRequests == 2

(***************************************************************************)
(* Static tables                                                           *)
(***************************************************************************)
STEP_TO_TOOL ==
    [n \in 1..5 |->
        CASE n = 1 -> "tool_convert_audio"
          [] n = 2 -> "tool_anti_spoof_detection"
          [] n = 3 -> "tool_asr_speaker_diarization"
          [] n = 4 -> "tool_extract_features"
          [] n = 5 -> "tool_generate_reference_report"]

ToolNames == {STEP_TO_TOOL[n] : n \in 1..5}

TOOL_REQUIRED_PARAMS ==
    [t \in ToolNames |->
        CASE t = "tool_convert_audio" -> <<"audio_path">>
          [] t = "tool_anti_spoof_detection" -> <<"standard_audio_path">>
          [] t = "tool_asr_speaker_diarization" -> <<"standard_audio_path">>
          [] t = "tool_extract_features" -> <<"audio_filename">>
          [] t = "tool_generate_reference_report" -> <<"audio_filename">>]

\* STEP_TO_TOOL.get(next_step, "生成最终检测报告")
FinalReportLabel == "generate_final_report"

StepToolGet(n) == IF n \in DOMAIN STEP_TO_TOOL THEN STEP_TO_TOOL[n] ELSE FinalReportLabel

\* the step whose tool is t
StepOf(t) == CHOOSE n \in 1..5 : STEP_TO_TOOL[n] = t

(***************************************************************************)
(* Values                                                                  *)
(***************************************************************************)
None == "None"
NoTool == "no_tool"
NoResult == [success |-> FALSE, error |-> "no_result", payload |-> None]

\* error strings: the collaborator's own message, the wrappers' "...失败: e"
\* and the dispatch boundary's "工具执行异常: e"
CollaboratorError == "collaborator_error"
WrapperError == "wrapper_exception_error"
DispatchError == "dispatch_exception_error"

\* dict helpers
DictPut(d, k, v) == [x \in (DOMAIN d) \cup {k} |-> IF x = k THEN v ELSE d[x]]
EmptyDict == [x \in {} |-> NoResult]

\* tool_executed.append(t) guarded by "if t not in tool_executed"
InSeq(s, x) == \E i \in 1..Len(s) : s[i] = x

\* the "not in" guard left out
AppendAlways(s, x) == Append(s, x)

AppendIfAbsent(s, x) == IF InSeq(s, x) THEN s ELSE Append(s, x)

(***************************************************************************)
(* Agent messages: messages[-1]["content"]                                 *)
(***************************************************************************)
ParamNames == {"audio_path", "standard_audio_path", "audio_filename"}
UnknownTool == "tool_unknown"

NonCallMessages ==
    { [kind |-> "null",  marker |-> FALSE, name |-> "", params_kind |-> "none", params |-> {}, value |-> "none"],
      [kind |-> "blank", marker |-> FALSE, name |-> "", params_kind |-> "none", params |-> {}, value |-> "none"] }
    \cup
    { [kind |-> "text", marker |-> m, name |-> "", params_kind |-> "none", params |-> {},
       value |-> "none"]
        : m \in BOOLEAN }

\* the value the request gives the parameter the tool function is called
\* with: the one the stored step-1 result holds (audio_filename /
\* standard_audio_path) or any other string
StoredValue == "stored_step1_value"
ForeignValue == "foreign_value"
ParamValues == {StoredValue, ForeignValue}

\* the mapping holds the parameter read at the dispatch, tool_params[...]
GivesRequired(n, q) ==
    /\ n \in ToolNames
    /\ \A i \in 1..Len(TOOL_REQUIRED_PARAMS[n]) : TOOL_REQUIRED_PARAMS[n][i] \in q

\* a JSON object with "name" and "parameters"; parameters is a mapping
\* ("map"), another container such as a list ("seq") or null/number ("scalar")
CallMessages ==
    UNION { { [kind |-> "call", marker |-> m, name |-> n, params_kind |-> "map",
               params |-> p, value |-> v]
                : m \in BOOLEAN,
                  p \in {q \in SUBSET ParamNames : GivesRequired(n, q)},
                  v \in ParamValues }
            : n \in ToolNames }
    \cup
    UNION { { [kind |-> "call", marker |-> m, name |-> n, params_kind |-> "map",
               params |-> p, value |-> "none"]
                : m \in BOOLEAN,
                  p \in {q \in SUBSET ParamNames : ~GivesRequired(n, q)} }
            : n \in ToolNames \cup {UnknownTool} }
    \cup
    { [kind |-> "call", marker |-> m, name |-> n, params_kind |-> "seq", params |-> p,
       value |-> "none"]
        : m \in BOOLEAN, n \in ToolNames \cup {UnknownTool}, p \in SUBSET ParamNames }
    \cup
    { [kind |-> "call", marker |-> m, name |-> n, params_kind |-> "scalar", params |-> {},
       value |-> "none"]
        : m \in BOOLEAN, n \in ToolNames \cup {UnknownTool} }

Messages == NonCallMessages \cup CallMessages

NoMessage == [kind |-> "none", marker |-> FALSE, name |-> "", params_kind |-> "none", params |-> {},
              value |-> "none"]

(***************************************************************************)
(* Replies of generate_reply                                               *)
(***************************************************************************)
Reply(kind, tool, step, expected, missing, next_step) ==
    [kind |-> kind, tool |-> tool, step |-> step, expected |-> expected,
     missing |-> missing, next_step |-> next_step]

NoReply == Reply("none", "", 0, "", <<>>, 0)

(***************************************************************************)
(* Collaborators: what a stage hands back to its tool wrapper.  A stage    *)
(* returns a success record, returns a failure record carrying its own     *)
(* error message, or raises.                                               *)
(***************************************************************************)
CollabSuccess == [raised |-> FALSE, success |-> TRUE,  error |-> None, audio_path |-> "path"]
CollabFailure == [raised |-> FALSE, success |-> FALSE, error |-> CollaboratorError, audio_path |-> None]
CollabRaise   == [raised |-> TRUE,  success |-> FALSE, error |-> None, audio_path |-> None]

CollaboratorReturns == {CollabSuccess, CollabFailure, CollabRaise}

\* no stage was called
NoCall == [raised |-> FALSE, success |-> FALSE, error |-> "no_call", audio_path |-> None]

\* normalize_path: path.strip() raises AttributeError on None
normalize_path_raises(path) == path = None

(***************************************************************************)
(* Pipeline state handed through the wrappers                              *)
(***************************************************************************)
PipelineState(step, results, executed) ==
    [step |-> step, results |-> results, executed |-> executed]

ToolOutcome(st, result) == [st |-> st, result |-> result]

Result(success, error, payload) ==
    [success |-> success, error |-> error, payload |-> payload]

\* the bare list stored under "anti_spoof_suspicious_segments"
SegmentList(payload) == [success |-> FALSE, error |-> "segment_list", payload |-> payload]

\* the step pointer never advanced
WrapperStoredHolds(st, tool, n, result, extra) ==
    ToolOutcome(
        PipelineState(n, DictPut(st.results, tool, result),
                      AppendIfAbsent(st.executed, tool)),
        result)

\* a failed result sends the pipeline back to its first step
WrapperStoredRestarts(st, tool, n, result, extra) ==
    ToolOutcome(
        PipelineState(IF result.success THEN n + 1 ELSE 1,
                      IF extra THEN DictPut(DictPut(st.results, tool, result),
                                            "anti_spoof_suspicious_segments",
                                            SegmentList(result.payload))
                               ELSE DictPut(st.results, tool, result),
                      AppendIfAbsent(st.executed, tool)),
        result)

\* the try-branch of the wrappers of steps 1-4: store the result, append the
\* tool once, advance on success and hold on failure
WrapperStored(st, tool, n, result, extra) ==
    ToolOutcome(
        PipelineState(IF result.success THEN n + 1 ELSE n,
                      IF extra THEN DictPut(DictPut(st.results, tool, result),
                                            "anti_spoof_suspicious_segments",
                                            SegmentList(result.payload))
                               ELSE DictPut(st.results, tool, result),
                      AppendIfAbsent(st.executed, tool)),
        result)

\* the failed result returned without being stored
WrapperExceptUnstored(st, tool, n, extra) ==
    ToolOutcome(PipelineState(n, st.results, st.executed),
                Result(FALSE, WrapperError, "empty"))

\* the step pointer set one step back
WrapperExceptStepsBack(st, tool, n, extra) ==
    LET result == Result(FALSE, WrapperError, "empty")
    IN  ToolOutcome(
            PipelineState(n - 1, DictPut(st.results, tool, result), st.executed),
            result)

\* the except-branch of the wrappers of steps 1-4: store the failure and hold
\* the step; tool_executed is not touched
WrapperExcept(st, tool, n, extra) ==
    LET result == Result(FALSE, WrapperError, "empty")
    IN  ToolOutcome(
            PipelineState(n,
                          IF extra THEN DictPut(DictPut(st.results, tool, result),
                                                "anti_spoof_suspicious_segments",
                                                SegmentList("empty"))
                                   ELSE DictPut(st.results, tool, result),
                          st.executed),
            result)

tool_convert_audio(st, ret) ==
    IF ret.raised \/ normalize_path_raises(ret.audio_path)
    THEN WrapperExcept(st, "tool_convert_audio", 1, FALSE)
    ELSE WrapperStored(st, "tool_convert_audio", 1,
                       Result(ret.success, ret.error, "data"), FALSE)

tool_anti_spoof_detection(st, ret) ==
    IF ret.raised
    THEN WrapperExcept(st, "tool_anti_spoof_detection", 2, TRUE)
    ELSE WrapperStored(st, "tool_anti_spoof_detection", 2,
                       Result(ret.success, IF ret.success THEN "" ELSE ret.error,
                              IF ret.success THEN "data" ELSE "empty"), TRUE)

tool_asr_speaker_diarization(st, ret) ==
    IF ret.raised
    THEN WrapperExcept(st, "tool_asr_speaker_diarization", 3, FALSE)
    ELSE WrapperStored(st, "tool_asr_speaker_diarization", 3,
                       Result(ret.success, ret.error,
                              IF ret.success THEN "data" ELSE "empty"), FALSE)

tool_extract_features(st, ret) ==
    IF ret.raised
    THEN WrapperExcept(st, "tool_extract_features", 4, FALSE)
    ELSE WrapperStored(st, "tool_extract_features", 4,
                       Result(ret.success, IF ret.success THEN "" ELSE ret.error,
                              IF ret.success THEN "data" ELSE "empty"), FALSE)

\* both branches append the tool unconditionally and set current_step = 6
tool_generate_reference_report(st, ret) ==
    LET result == IF ret.raised
                  THEN Result(FALSE, WrapperError, "empty")
                  ELSE Result(ret.success, IF ret.success THEN "" ELSE ret.error,
                              IF ret.success THEN "data" ELSE "empty")
    IN  ToolOutcome(
            PipelineState(6,
                          DictPut(st.results, "tool_generate_reference_report", result),
                          Append(st.executed, "tool_generate_reference_report")),
            result)

\* tool_functions[tool_name](...)
tool_functions(tool, st, ret) ==
    CASE tool = "tool_convert_audio" -> tool_convert_audio(st, ret)
      [] tool = "tool_anti_spoof_detection" -> tool_anti_spoof_detection(st, ret)
      [] tool = "tool_asr_speaker_diarization" -> tool_asr_speaker_diarization(st, ret)
      [] tool = "tool_extract_features" -> tool_extract_features(st, ret)
      [] tool = "tool_generate_reference_report" -> tool_generate_reference_report(st, ret)

(***************************************************************************)
(* FeedbackUserProxyAgent                                                  *)
(***************************************************************************)
\* _extract_function_call: a dict with "name" and "parameters", or {}
extract_function_call(msg) == msg.kind = "call"

\* the membership test left out
unknown_tool_never(tool_name) == FALSE

\* tool_name not in STEP_TO_TOOL.values()
unknown_tool(tool_name) == tool_name \notin ToolNames

\* TOOL_REQUIRED_PARAMS.get(tool_name, [])
required_params(tool_name) ==
    IF tool_name \in DOMAIN TOOL_REQUIRED_PARAMS THEN TOOL_REQUIRED_PARAMS[tool_name] ELSE <<>>

\* "p not in params" raises TypeError when params is no container
check_params_raises(msg) ==
    msg.params_kind = "scalar" /\ required_params(msg.name) /= <<>>

\* _check_params: missing_params, in the order of TOOL_REQUIRED_PARAMS
missing_params(tool_name, params) ==
    LET Absent(p) == p \notin params
    IN  SelectSeq(required_params(tool_name), Absent)

\* the step comparison left out
step_mismatch_never(tool_name, step) == FALSE

\* tool_name != STEP_TO_TOOL.get(current_step)
step_mismatch(tool_name, step) == tool_name /= StepToolGet(step)

\* tool_params["..."] raises TypeError unless tool_params is a mapping
index_params_raises(msg) == msg.params_kind /= "map"

format_error_reply(st) ==
    Reply("format_error", "", st.step, STEP_TO_TOOL[st.step], <<>>, 0)

unknown_tool_reply(st, msg) ==
    Reply("unknown_tool", msg.name, st.step, "", <<>>, 0)

param_error_reply(st, msg) ==
    Reply("param_error", msg.name, st.step, "", missing_params(msg.name, msg.params), 0)

\* the two tool names swapped in the message
step_error_reply_swapped(st, msg) ==
    Reply("step_error", StepToolGet(st.step), st.step, msg.name, <<>>, 0)

step_error_reply(st, msg) ==
    Reply("step_error", msg.name, st.step, StepToolGet(st.step), <<>>, 0)

RaisedReply(st, msg) == Reply("raised", msg.name, st.step, "", <<>>, 0)
StopReply(st) == Reply("stop", "", st.step, "", <<>>, 0)
CompleteReply == Reply("complete", "", 6, "", <<>>, 0)
PassReply == Reply("pass", "", 0, "", <<>>, 0)

\* lines 502-526: the guards of a non-terminal state, in source order; "pass"
\* when the request goes on to the dispatch
active_guard(st, msg) ==
    IF msg.kind = "blank" THEN StopReply(st)
    ELSE IF ~extract_function_call(msg) THEN format_error_reply(st)
    ELSE IF unknown_tool(msg.name) THEN unknown_tool_reply(st, msg)
    ELSE IF check_params_raises(msg) THEN RaisedReply(st, msg)
    ELSE IF missing_params(msg.name, msg.params) /= <<>> THEN param_error_reply(st, msg)
    ELSE IF step_mismatch(msg.name, st.step) THEN step_error_reply(st, msg)
    ELSE PassReply

\* the terminal test left out and the step clamped to the last table entry
guard_reply_clamped(st, msg) ==
    IF msg.kind = "null" THEN RaisedReply(st, msg)
    ELSE active_guard(PipelineState(IF st.step = 6 THEN 5 ELSE st.step,
                                    st.results, st.executed), msg)

\* lines 494-500 in front of the guards: content.strip() raises on a null
\* content; the terminal state answers without looking at the request
guard_reply(st, msg) ==
    IF msg.kind = "null" THEN RaisedReply(st, msg)
    ELSE IF st.step = 6 /\ msg.marker THEN StopReply(st)
    ELSE IF st.step = 6 THEN CompleteReply
    ELSE active_guard(st, msg)

ReplyOutcome(st, r, d, tr) ==
    [st |-> st, reply |-> r, dispatched |-> d, tool_result |-> tr]

\* lines 548-576: next_step is computed from the global current_step as the
\* wrapper left it
post_dispatch(st, tool_name, d, tr) ==
    LET next_step == IF st.step = 5 /\ tr.success THEN 6
                     ELSE IF tr.success THEN st.step + 1 ELSE st.step
        next_tool == StepToolGet(next_step)
    IN  IF next_step = 6
        THEN ReplyOutcome(PipelineState(6, st.results, st.executed),
                          Reply("final_feedback", tool_name, st.step, next_tool, <<>>, next_step),
                          d, tr)
        ELSE ReplyOutcome(st,
                          Reply("feedback", tool_name, st.step,
                                IF next_step <= 5 THEN next_tool ELSE FinalReportLabel,
                                <<>>, next_step),
                          d, tr)

\* the request reaches the call of the tool function
calls_tool(st, msg) ==
    guard_reply(st, msg).kind = "pass" /\ ~index_params_raises(msg)

\* lines 528-546: call the tool function; an exception at this boundary
\* becomes a failed result that no wrapper has stored
dispatch(st, msg, ret) ==
    IF index_params_raises(msg)
    THEN post_dispatch(st, msg.name, NoTool, Result(FALSE, DispatchError, None))
    ELSE LET out == tool_functions(msg.name, st, ret)
         IN  post_dispatch(out.st, msg.name, msg.name, out.result)

generate_reply(st, msg, ret) ==
    LET g == guard_reply(st, msg)
    IN  IF g.kind = "pass"
        THEN dispatch(st, msg, ret)
        ELSE ReplyOutcome(st, g, NoTool, NoResult)

(***************************************************************************)
(* Stage collaborators and the files they persist, keyed by the audio base *)
(* filename (anti_spoof_detector.py, asr_diarization.py,                   *)
(* suspicious_feature_extractor.py, reference_tool.py)                     *)
(***************************************************************************)
\* every stage addresses its files by the base filename alone; the files of
\* one filename are followed
AudioNames == {"LA_E_1000147"}

\* a suspicious segment; times are in milliseconds, the scorer rounds its
\* seconds to 3 decimals
Segment(s, e) == [start |-> s, end |-> e]

\* lists extract_suspicious_segments can produce
ScorerSegments ==
    { <<>>,
      <<Segment(1000, 1600)>>,
      <<Segment(1000, 1600), Segment(2500, 2700)>> }

\* texts whisper can transcribe
AsrTexts == {"hello world"}

\* json.dump writes a float as its integer part and its decimals
json_dump_number(ms) == [int |-> ms \div 1000, frac |-> ms % 1000]

\* the decimals dropped on reading
json_load_number_truncated(t) == t.int * 1000

\* json.load reads the number back
json_load_number(t) == t.int * 1000 + t.frac

json_dump_segments(segs) ==
    [i \in 1..Len(segs) |->
        [start |-> json_dump_number(segs[i].start),
         end   |-> json_dump_number(segs[i].end)]]

json_load_segments(js) ==
    [i \in 1..Len(js) |->
        Segment(json_load_number(js[i].start), json_load_number(js[i].end))]

\* file contents; exists = FALSE stands for no file
AntiSpoofFile(segs_json) == [exists |-> TRUE, success |-> TRUE, segments |-> segs_json]
NoAntiSpoofFile == [exists |-> FALSE, success |-> FALSE, segments |-> <<>>]

AsrFile(success, text) == [exists |-> TRUE, success |-> success, text |-> text]
NoAsrFile == [exists |-> FALSE, success |-> FALSE, text |-> ""]

SummaryFile(total, extracted) ==
    [exists |-> TRUE, success |-> TRUE, total |-> total, extracted |-> extracted]
NoSummaryFile == [exists |-> FALSE, success |-> FALSE, total |-> 0, extracted |-> 0]

ReportFile(total, extracted, no_suspicious, asr_text) ==
    [exists |-> TRUE, total |-> total, extracted |-> extracted,
     no_suspicious |-> no_suspicious, asr_text |-> asr_text]
NoReportFile ==
    [exists |-> FALSE, total |-> 0, extracted |-> 0, no_suspicious |-> FALSE,
     asr_text |-> ""]

\* what a stage call hands back: it raised, or returned success or a
\* failure with an error; segments is the list the stage worked on
StageReturn(stage, name, raised, success, error, segments) ==
    [stage |-> stage, name |-> name, raised |-> raised, success |-> success,
     error |-> error, segments |-> segments]

NoRun == StageReturn("none", "", FALSE, FALSE, "", <<>>)

StageEffect(file, ret) == [file |-> file, ret |-> ret]

\* run_anti_spoof_detection: a missing audio file returns a failure and a
\* raising scorer propagates, both before the file is opened
run_anti_spoof_detection(old, name, audio_exists, scorer_raises, segs) ==
    IF ~audio_exists
    THEN StageEffect(old, StageReturn("anti_spoof", name, FALSE, FALSE, "audio_missing", <<>>))
    ELSE IF scorer_raises
    THEN StageEffect(old, StageReturn("anti_spoof", name, TRUE, FALSE, "", <<>>))
    ELSE StageEffect(AntiSpoofFile(json_dump_segments(segs)),
                     StageReturn("anti_spoof", name, FALSE, TRUE, "", segs))

\* extract_asr_with_speaker_diarization with save_json = True: the failed
\* result is saved as well
extract_asr_with_speaker_diarization(old, name, audio_exists, asr_raises, text) ==
    IF ~audio_exists
    THEN StageEffect(AsrFile(FALSE, ""),
                     StageReturn("asr", name, FALSE, FALSE, "audio_missing", <<>>))
    ELSE IF asr_raises
    THEN StageEffect(AsrFile(FALSE, ""),
                     StageReturn("asr", name, FALSE, FALSE, "asr_failed", <<>>))
    ELSE StageEffect(AsrFile(TRUE, text),
                     StageReturn("asr", name, FALSE, TRUE, "", <<>>))

\* load_anti_spoof_json
load_anti_spoof_json(file) ==
    IF ~file.exists THEN [success |-> FALSE, error |-> "no_anti_spoof_json", segments |-> <<>>]
    ELSE IF ~file.success
    THEN [success |-> FALSE, error |-> "anti_spoof_failed", segments |-> <<>>]
    ELSE [success |-> TRUE, error |-> "", segments |-> json_load_segments(file.segments)]

\* extract_suspicious_segments_features: with no suspicious segment it
\* returns success before the summary is written
extract_suspicious_segments_features(old, name, anti_spoof_file, audio_exists, load_raises, extracted) ==
    LET loaded == load_anti_spoof_json(anti_spoof_file)
    IN  IF ~loaded.success
        THEN StageEffect(old, StageReturn("features", name, FALSE, FALSE, loaded.error, <<>>))
        ELSE IF ~audio_exists
        THEN StageEffect(old, StageReturn("features", name, FALSE, FALSE, "audio_missing",
                                          loaded.segments))
        ELSE IF Len(loaded.segments) = 0
        THEN StageEffect(old, StageReturn("features", name, FALSE, TRUE, "", loaded.segments))
        ELSE IF load_raises
        THEN StageEffect(old, StageReturn("features", name, FALSE, FALSE, "load_failed",
                                          loaded.segments))
        ELSE StageEffect(SummaryFile(Len(loaded.segments), extracted),
                         StageReturn("features", name, FALSE, TRUE, "", loaded.segments))

\* load_suspicious_features
load_suspicious_features(file) ==
    IF ~file.exists THEN [success |-> FALSE, error |-> "no_summary"]
    ELSE IF ~file.success THEN [success |-> FALSE, error |-> "summary_failed"]
    ELSE [success |-> TRUE, error |-> ""]

\* load_asr_diarization_data: the data, or None for a missing or failed file
load_asr_diarization_data(file) == IF file.exists /\ file.success THEN file.text ELSE ""

\* generate_reference_report: built from the summary file and the ASR file
\* found on disk for the filename
generate_reference_report(old, name, summary_file, asr_file, writable) ==
    LET feature_result == load_suspicious_features(summary_file)
    IN  IF ~feature_result.success
        THEN StageEffect(old, StageReturn("report", name, FALSE, FALSE,
                                          feature_result.error, <<>>))
        ELSE IF ~writable
        THEN StageEffect(old, StageReturn("report", name, FALSE, FALSE, "write_failed", <<>>))
        ELSE StageEffect(ReportFile(summary_file.total, summary_file.extracted,
                                    summary_file.extracted = 0,
                                    load_asr_diarization_data(asr_file)),
                         StageReturn("report", name, FALSE, TRUE, "", <<>>))

(***************************************************************************)
(* Helper functions: recognize_user_intent and normalize_path (main.py),   *)
(* extract_suspicious_segments (anti_spoof_detector.py), the anomaly tests *)
(* and the risk assessment of the report (reference_tool.py)               *)
(***************************************************************************)
\* what the patterns of recognize_user_intent find in the input: a quit
\* keyword, an extractable audio path, the word "检测", a knowledge-base key,
\* a greeting
InputPatterns == {"quit", "audio_path", "detect_keyword", "knowledge_key", "greeting"}

\* the detection branch tested before the quit patterns
recognize_user_intent_path_first(matches) ==
    IF "audio_path" \in matches THEN "detection"
    ELSE IF "quit" \in matches THEN "quit"
    ELSE IF "detect_keyword" \in matches THEN "invalid_detection"
    ELSE IF "knowledge_key" \in matches THEN "professional_question"
    ELSE IF "greeting" \in matches THEN "greeting"
    ELSE "chat"

\* recognize_user_intent: the first branch that returns
recognize_user_intent(matches) ==
    IF "quit" \in matches THEN "quit"
    ELSE IF "audio_path" \in matches THEN "detection"
    ELSE IF "detect_keyword" \in matches THEN "invalid_detection"
    ELSE IF "knowledge_key" \in matches THEN "professional_question"
    ELSE IF "greeting" \in matches THEN "greeting"
    ELSE "chat"

\* the keys of PROFESSIONAL_KNOWLEDGE in dictionary order: "mfcc", "异常值判定",
\* "梅尔能量", "音频伪造检测流程", "风险等级"; a key stands for its content too
PROFESSIONAL_KNOWLEDGE ==
    <<"mfcc", "anomaly_rule", "mel_energy", "detection_flow", "risk_level">>

KnowledgeKeys == { PROFESSIONAL_KNOWLEDGE[i] : i \in 1..Len(PROFESSIONAL_KNOWLEDGE) }

\* what a user input may contain: a quit keyword, an audio path, the word
\* "检测", a greeting, knowledge-base keys
Phrases == {"quit_word", "audio_path", "detect_word", "greeting_word"} \cup KnowledgeKeys

\* the phrases that occur inside a phrase: "检测" is a substring of the key
\* "音频伪造检测流程"
phrase_contains(p) == IF p = "detection_flow" THEN {"detect_word"} ELSE {}

\* user inputs, as the set of phrases the text contains
UserInputs == { t \in SUBSET Phrases : \A p \in t : phrase_contains(p) \subseteq t }

\* the re.search tests of recognize_user_intent on the input
patterns_found(text) ==
    (IF "quit_word" \in text THEN {"quit"} ELSE {}) \cup
    (IF "audio_path" \in text THEN {"audio_path"} ELSE {}) \cup
    (IF "detect_word" \in text THEN {"detect_keyword"} ELSE {}) \cup
    (IF text \cap KnowledgeKeys /= {} THEN {"knowledge_key"} ELSE {}) \cup
    (IF "greeting_word" \in text THEN {"greeting"} ELSE {})

\* the loop over PROFESSIONAL_KNOWLEDGE.items(): the first key found
first_keyword(text) ==
    LET found == { i \in 1..Len(PROFESSIONAL_KNOWLEDGE) : PROFESSIONAL_KNOWLEDGE[i] \in text }
    IN  IF found = {} THEN ""
        ELSE PROFESSIONAL_KNOWLEDGE[CHOOSE i \in found : \A j \in found : i <= j]

\* the knowledge-base entry recognize_user_intent replies with; the fixed
\* replies of the other intents are left out
knowledge_reply(text) ==
    IF recognize_user_intent(patterns_found(text)) = "professional_question"
    THEN first_keyword(text)
    ELSE ""

\* the characters of a path: an ordinary character, a blank, the two quote
\* characters and the separator ("." and ".." components are left out)
Chars == {"a", " ", "'", "\"", "/"}
Whitespace == {" "}
Quotes == {"\"", "'"}

MaxPathLen == 3

\* strings as sequences of characters
Strings == UNION { [1..n -> Chars] : n \in 0..MaxPathLen }

\* values that reach normalize_path: user text and tool-call parameters of
\* any JSON type, a null result field included
JsonValue(type, text) == [type |-> type, text |-> text]
JsonValues ==
    { JsonValue("string", t) : t \in Strings } \cup
    { JsonValue(type, <<>>) : type \in {"null", "number", "array", "object", "boolean"} }

\* str.strip(chars): the characters of chars removed from both ends
RECURSIVE lstrip(_, _)
lstrip(s, chars) ==
    IF s /= <<>> /\ Head(s) \in chars THEN lstrip(Tail(s), chars) ELSE s

RECURSIVE rstrip(_, _)
rstrip(s, chars) ==
    IF s /= <<>> /\ s[Len(s)] \in chars THEN rstrip(SubSeq(s, 1, Len(s) - 1), chars) ELSE s

strip(s, chars) == rstrip(lstrip(s, chars), chars)

\* path.strip().strip('"\'')
strip_quotes(text) == strip(strip(text, Whitespace), Quotes)

\* os.getcwd()
Cwd == <<"/", "a">>

\* os.path.normpath: empty components dropped, exactly two leading
\* separators kept, "." for the empty path
RECURSIVE squeeze(_)
squeeze(p) ==
    IF Len(p) <= 1 THEN p
    ELSE IF p[1] = "/" /\ p[2] = "/" THEN squeeze(Tail(p))
    ELSE <<p[1]>> \o squeeze(Tail(p))

normpath(p) ==
    LET q == squeeze(p)
        r == IF Len(q) > 1 /\ q[Len(q)] = "/" THEN SubSeq(q, 1, Len(q) - 1) ELSE q
        two == /\ Len(p) >= 2
               /\ p[1] = "/"
               /\ p[2] = "/"
               /\ ~(Len(p) >= 3 /\ p[3] = "/")
    IN  IF r = <<>> THEN <<".">>
        ELSE IF two THEN <<"/">> \o r
        ELSE r

\* os.path.abspath: a relative path joined to the working directory
abspath(p) ==
    normpath(IF p /= <<>> /\ p[1] = "/" THEN p ELSE Cwd \o <<"/">> \o p)

\* normalize_path: .strip() exists on str only
normalize_path(value) ==
    IF value.type = "string"
    THEN [raised |-> FALSE, path |-> normpath(abspath(strip_quotes(value.text)))]
    ELSE [raised |-> TRUE, path |-> <<>>]

\* ANOMALY_THRESHOLDS; the MFCC mean in units of 1e-7, the MFCC standard
\* deviation and the mel energy in units of 1e-4
ANOMALY_THRESHOLDS ==
    [mfcc_mean_abs    |-> 5000000,
     mfcc_std_upper   |-> 350141,
     mel_energy_upper |-> -435002,
     mel_energy_lower |-> -659447]

Abs(x) == IF x < 0 THEN -x ELSE x

\* one entry of segments_features
SegmentFeature(mfcc_success, mfcc_mean, mfcc_std, mel_success, mel_mean) ==
    [mfcc_success |-> mfcc_success, mfcc_mean |-> mfcc_mean, mfcc_std |-> mfcc_std,
     mel_success |-> mel_success, mel_mean |-> mel_mean]

\* MFCC means at, just below and just above the threshold, of both signs
MfccMeans == {-5000001, -5000000, -4999999, 0, 4999999, 5000000, 5000001}
MfccStds == {350141, 350142}
MelMeans == {-500000, -435001}

SegmentFeatures ==
    { SegmentFeature(ms, m, sd, es, e) :
        ms \in BOOLEAN, m \in MfccMeans, sd \in MfccStds, es \in BOOLEAN, e \in MelMeans }

\* segments_features of a summary with one or two extracted segments
FeatureLists ==
    { <<a>> : a \in SegmentFeatures } \cup
    { <<a, b>> : a \in {x \in SegmentFeatures : x.mel_success /\ x.mfcc_std = 350141},
                 b \in SegmentFeatures }

\* the mean test written with >=
analyze_feature_anomaly_inclusive(seg) ==
    (IF seg.mfcc_success /\ Abs(seg.mfcc_mean) >= ANOMALY_THRESHOLDS.mfcc_mean_abs
     THEN {"mfcc_mean"} ELSE {})
    \cup
    (IF seg.mfcc_success /\ seg.mfcc_std > ANOMALY_THRESHOLDS.mfcc_std_upper
     THEN {"mfcc_std"} ELSE {})
    \cup
    (IF seg.mel_success /\ (\/ seg.mel_mean > ANOMALY_THRESHOLDS.mel_energy_upper
                            \/ seg.mel_mean < ANOMALY_THRESHOLDS.mel_energy_lower)
     THEN {"mel_energy"} ELSE {})

\* analyze_feature_anomaly: the anomalies the per-segment analysis reports
analyze_feature_anomaly(seg) ==
    (IF seg.mfcc_success /\ Abs(seg.mfcc_mean) > ANOMALY_THRESHOLDS.mfcc_mean_abs
     THEN {"mfcc_mean"} ELSE {})
    \cup
    (IF seg.mfcc_success /\ seg.mfcc_std > ANOMALY_THRESHOLDS.mfcc_std_upper
     THEN {"mfcc_std"} ELSE {})
    \cup
    (IF seg.mel_success /\ (\/ seg.mel_mean > ANOMALY_THRESHOLDS.mel_energy_upper
                            \/ seg.mel_mean < ANOMALY_THRESHOLDS.mel_energy_lower)
     THEN {"mel_energy"} ELSE {})

\* the overall risk assessment of generate_reference_report: anomaly_details
\* as pairs of segment index and anomaly
anomaly_details(features) ==
    { <<i, "mfcc_mean">> : i \in { j \in 1..Len(features) :
        /\ features[j].mfcc_success
        /\ Abs(features[j].mfcc_mean) > ANOMALY_THRESHOLDS.mfcc_mean_abs } }
    \cup
    { <<i, "mfcc_std">> : i \in { j \in 1..Len(features) :
        /\ features[j].mfcc_success
        /\ features[j].mfcc_std > ANOMALY_THRESHOLDS.mfcc_std_upper } }
    \cup
    { <<i, "mel_energy">> : i \in { j \in 1..Len(features) :
        /\ features[j].mel_success
        /\ (\/ features[j].mel_mean > ANOMALY_THRESHOLDS.mel_energy_upper
            \/ features[j].mel_mean < ANOMALY_THRESHOLDS.mel_energy_lower) } }

\* the conclusion of the overall risk assessment: the sentence "存在伪造风险"
\* when has_anomaly is set, the sentence "伪造风险较低" otherwise
risk_conclusion(details) == IF details /= {} THEN "at_risk" ELSE "low"

\* the sliding window of the anti-spoof scorer: times in milliseconds (the
\* code rounds them to three decimals of a second), scores in units of 1e-4
\* (the code rounds them to four decimals)
HOP_SIZE == 100
FAKE_THRESHOLD == 7000

MaxWindows == 4

\* scores just below, at and just above FAKE_THRESHOLD
WindowScores == {FAKE_THRESHOLD - 1, FAKE_THRESHOLD, FAKE_THRESHOLD + 1}
Thresholds == {FAKE_THRESHOLD, FAKE_THRESHOLD + 1}

ScoreLists == UNION { [1..n -> WindowScores] : n \in 0..MaxWindows }

\* sliding_window_detection: window i starts at sample i * hop_len
window_time_stamps(n) == [i \in 1..n |-> (i - 1) * HOP_SIZE]

\* the threshold test written with >
is_suspicious_strict(score, threshold) == score > threshold

is_suspicious(score, threshold) == score >= threshold

\* the end of a segment taken at the start of its last window
segment_end_no_hop(t) == t

segment_end(t) == t + HOP_SIZE

\* the loop variables of extract_suspicious_segments
ScanState(segments, start_set, start_time, end_time) ==
    [segments |-> segments, start_set |-> start_set, start_time |-> start_time,
     end_time |-> end_time]

\* the else branch appends the segment and leaves start_time set
scan_window_unclosed(acc, score, t, threshold) ==
    IF is_suspicious(score, threshold)
    THEN ScanState(acc.segments, TRUE, IF acc.start_set THEN acc.start_time ELSE t,
                   segment_end(t))
    ELSE IF acc.start_set
         THEN ScanState(Append(acc.segments, Segment(acc.start_time, acc.end_time)),
                        TRUE, acc.start_time, acc.end_time)
         ELSE acc

\* one iteration of the loop over zip(fake_scores, time_stamps)
scan_window(acc, score, t, threshold) ==
    IF is_suspicious(score, threshold)
    THEN ScanState(acc.segments, TRUE, IF acc.start_set THEN acc.start_time ELSE t,
                   segment_end(t))
    ELSE IF acc.start_set
         THEN ScanState(Append(acc.segments, Segment(acc.start_time, acc.end_time)),
                        FALSE, acc.start_time, acc.end_time)
         ELSE acc

RECURSIVE scan_windows(_, _, _, _, _)
scan_windows(fake_scores, time_stamps, threshold, i, acc) ==
    IF i > Len(fake_scores) \/ i > Len(time_stamps)
    THEN acc
    ELSE scan_windows(fake_scores, time_stamps, threshold, i + 1,
                      scan_window(acc, fake_scores[i], time_stamps[i], threshold))

\* extract_suspicious_segments: the loop, then the segment still open at the
\* last window
extract_suspicious_segments(fake_scores, time_stamps, threshold) ==
    LET acc == scan_windows(fake_scores, time_stamps, threshold, 1,
                            ScanState(<<>>, FALSE, 0, 0))
    IN  IF acc.start_set
        THEN Append(acc.segments,
                    Segment(acc.start_time, segment_end(time_stamps[Len(time_stamps)])))
        ELSE acc.segments

\* a call of one helper
FnCall(fn, matches, value, features) ==
    [fn |-> fn, matches |-> matches, value |-> value, features |-> features,
     text |-> {}, scores |-> <<>>, time_stamps |-> <<>>, threshold |-> 0]

\* recognize_user_intent(user_input)
TextCall(text) ==
    [FnCall("recognize_user_intent", patterns_found(text), JsonValue("null", <<>>), <<>>)
        EXCEPT !.text = text]

\* extract_suspicious_segments(fake_scores, time_stamps, threshold)
ScoresCall(scores, threshold) ==
    [FnCall("extract_suspicious_segments", {}, JsonValue("null", <<>>), <<>>)
        EXCEPT !.scores = scores, !.time_stamps = window_time_stamps(Len(scores)),
               !.threshold = threshold]

NoFnCall == FnCall("none", {}, JsonValue("null", <<>>), <<>>)

FnCalls ==
    { TextCall(t) : t \in UserInputs }
    \cup
    { FnCall("normalize_path", {}, v, <<>>) : v \in JsonValues }
    \cup
    { FnCall("generate_reference_report", {}, JsonValue("null", <<>>), f) : f \in FeatureLists }
    \cup
    { ScoresCall(sc, th) : sc \in ScoreLists, th \in Thresholds }

\* what the helper handed back
FnReturn(raised, intent, path, segment_anomalies, details) ==
    [returned |-> TRUE, raised |-> raised, intent |-> intent, path |-> path,
     segment_anomalies |-> segment_anomalies, details |-> details,
     reply |-> "", risk |-> "", segments |-> <<>>]

NotReturned ==
    [returned |-> FALSE, raised |-> FALSE, intent |-> "", path |-> <<>>,
     segment_anomalies |-> <<>>, details |-> {},
     reply |-> "", risk |-> "", segments |-> <<>>]

(***************************************************************************)
(* Stage runs on the shared output directories                             *)
(***************************************************************************)
\* the output of the most recent successful run, per stage and filename
NoRecent ==
    [scorer     |-> [n \in AudioNames |-> <<>>],
     anti_spoof |-> [n \in AudioNames |-> NoAntiSpoofFile],
     asr        |-> [n \in AudioNames |-> NoAsrFile],
     features   |-> [n \in AudioNames |-> NoSummaryFile]]

RunAntiSpoof ==
    \E name \in AudioNames, audio_exists \in BOOLEAN, scorer_raises \in BOOLEAN,
       segs \in ScorerSegments :
        LET eff == run_anti_spoof_detection(anti_spoof_json[name], name, audio_exists,
                                            scorer_raises, segs)
        IN  /\ anti_spoof_json' = [anti_spoof_json EXCEPT ![name] = eff.file]
            /\ last_run' = eff.ret
            /\ recent' = IF eff.ret.success
                         THEN [recent EXCEPT !.scorer[name] = segs,
                                             !.anti_spoof[name] =
                                                 AntiSpoofFile(json_dump_segments(segs))]
                         ELSE recent
            /\ UNCHANGED <<asr_json, summary_json, report_md, engine_vars, fn_vars>>

RunAsr ==
    \E name \in AudioNames, audio_exists \in BOOLEAN, asr_raises \in BOOLEAN,
       text \in AsrTexts :
        LET eff == extract_asr_with_speaker_diarization(asr_json[name], name, audio_exists,
                                                        asr_raises, text)
        IN  /\ asr_json' = [asr_json EXCEPT ![name] = eff.file]
            /\ last_run' = eff.ret
            /\ recent' = IF eff.ret.success
                         THEN [recent EXCEPT !.asr[name] = AsrFile(TRUE, text)]
                         ELSE recent
            /\ UNCHANGED <<anti_spoof_json, summary_json, report_md, engine_vars, fn_vars>>

RunExtractFeatures ==
    \E name \in AudioNames, audio_exists \in BOOLEAN, load_raises \in BOOLEAN :
    \E extracted \in 0..Len(anti_spoof_json[name].segments) :
        LET eff == extract_suspicious_segments_features(
                       summary_json[name], name, anti_spoof_json[name], audio_exists,
                       load_raises, extracted)
        IN  /\ summary_json' = [summary_json EXCEPT ![name] = eff.file]
            /\ last_run' = eff.ret
            /\ recent' = IF eff.ret.success
                         THEN [recent EXCEPT !.features[name] =
                                  SummaryFile(Len(eff.ret.segments),
                                              IF Len(eff.ret.segments) = 0 THEN 0
                                                                             ELSE extracted)]
                         ELSE recent
            /\ UNCHANGED <<anti_spoof_json, asr_json, report_md, engine_vars, fn_vars>>

RunGenerateReport ==
    \E name \in AudioNames, writable \in BOOLEAN :
        LET eff == generate_reference_report(report_md[name], name, summary_json[name],
                                             asr_json[name], writable)
        IN  /\ report_md' = [report_md EXCEPT ![name] = eff.file]
            /\ last_run' = eff.ret
            /\ UNCHANGED <<anti_spoof_json, asr_json, summary_json, recent,
                           engine_vars, fn_vars>>

StageNext == RunAntiSpoof \/ RunAsr \/ RunExtractFeatures \/ RunGenerateReport

\* the helpers applied to an input drawn from the bounded sets
FnInit ==
    /\ current_step = 1
    /\ global_tool_results = EmptyDict
    /\ tool_executed = <<>>
    /\ chatting = FALSE
    /\ last_message = NoMessage
    /\ reply = NoReply
    /\ dispatched = NoTool
    /\ tool_result = NoResult
    /\ collaborator_return = NoCall
    /\ requests = 0
    /\ anti_spoof_json = [n \in AudioNames |-> NoAntiSpoofFile]
    /\ asr_json = [n \in AudioNames |-> NoAsrFile]
    /\ summary_json = [n \in AudioNames |-> NoSummaryFile]
    /\ report_md = [n \in AudioNames |-> NoReportFile]
    /\ last_run = NoRun
    /\ recent = NoRecent
    /\ fn_call \in FnCalls
    /\ fn_return = NotReturned

RecognizeUserIntent ==
    /\ fn_call.fn = "recognize_user_intent"
    /\ ~fn_return.returned
    /\ fn_return' = [FnReturn(FALSE, recognize_user_intent(patterns_found(fn_call.text)),
                              <<>>, <<>>, {})
                        EXCEPT !.reply = knowledge_reply(fn_call.text)]
    /\ UNCHANGED <<fn_call, engine_vars, stage_vars>>

NormalizePath ==
    /\ fn_call.fn = "normalize_path"
    /\ ~fn_return.returned
    /\ LET r == normalize_path(fn_call.value)
       IN  fn_return' = FnReturn(r.raised, "", r.path, <<>>, {})
    /\ UNCHANGED <<fn_call, engine_vars, stage_vars>>

\* the report body for a summary with extracted segments: the per-segment
\* analysis of every entry, then the overall risk assessment
GenerateReportBody ==
    /\ fn_call.fn = "generate_reference_report"
    /\ ~fn_return.returned
    /\ fn_return' = [FnReturn(FALSE, "", <<>>,
                              [i \in 1..Len(fn_call.features) |->
                                  analyze_feature_anomaly(fn_call.features[i])],
                              anomaly_details(fn_call.features))
                        EXCEPT !.risk = risk_conclusion(anomaly_details(fn_call.features))]
    /\ UNCHANGED <<fn_call, engine_vars, stage_vars>>

ExtractSuspiciousSegments ==
    /\ fn_call.fn = "extract_suspicious_segments"
    /\ ~fn_return.returned
    /\ fn_return' = [FnReturn(FALSE, "", <<>>, <<>>, {})
                        EXCEPT !.segments = extract_suspicious_segments(
                                   fn_call.scores, fn_call.time_stamps, fn_call.threshold)]
    /\ UNCHANGED <<fn_call, engine_vars, stage_vars>>

FnNext ==
    \/ RecognizeUserIntent
    \/ NormalizePath
    \/ GenerateReportBody
    \/ ExtractSuspiciousSegments

FnSpec == FnInit /\ [][FnNext]_vars

(***************************************************************************)
(* Actions                                                                 *)
(***************************************************************************)
Init ==
    /\ current_step = 1
    /\ global_tool_results = EmptyDict
    /\ tool_executed = <<>>
    /\ chatting = FALSE
    /\ last_message = NoMessage
    /\ reply = NoReply
    /\ dispatched = NoTool
    /\ tool_result = NoResult
    /\ collaborator_return = NoCall
    /\ requests = 0
    /\ anti_spoof_json = [n \in AudioNames |-> NoAntiSpoofFile]
    /\ asr_json = [n \in AudioNames |-> NoAsrFile]
    /\ summary_json = [n \in AudioNames |-> NoSummaryFile]
    /\ report_md = [n \in AudioNames |-> NoReportFile]
    /\ last_run = NoRun
    /\ recent = NoRecent
    /\ fn_call = NoFnCall
    /\ fn_return = NotReturned

\* the "global" declaration left out: the three assignments bind locals
StartDetectionLocals ==
    /\ ~chatting
    /\ requests < MaxRequests
    /\ requests' = requests + 1
    /\ chatting' = TRUE
    /\ last_message' = NoMessage
    /\ reply' = NoReply
    /\ dispatched' = NoTool
    /\ tool_result' = NoResult
    /\ collaborator_return' = NoCall
    /\ UNCHANGED <<current_step, global_tool_results, tool_executed>>
    /\ UNCHANGED <<stage_vars, fn_vars>>

\* start_detection_chat, intent "detection": reset the globals and open the
\* conversation with a cleared history
StartDetection ==
    /\ ~chatting
    /\ requests < MaxRequests
    /\ requests' = requests + 1
    /\ current_step' = 1
    /\ global_tool_results' = EmptyDict
    /\ tool_executed' = <<>>
    /\ chatting' = TRUE
    /\ last_message' = NoMessage
    /\ reply' = NoReply
    /\ dispatched' = NoTool
    /\ tool_result' = NoResult
    /\ collaborator_return' = NoCall
    /\ UNCHANGED <<stage_vars, fn_vars>>

\* the collaborator returns only when the tool function is called
CollaboratorCalls(st, msg) ==
    IF calls_tool(st, msg) THEN CollaboratorReturns ELSE {NoCall}

\* one agent message handled by generate_reply; a None reply or an escaping
\* exception ends initiate_chat
HandleMessage(msg) ==
    LET st == PipelineState(current_step, global_tool_results, tool_executed)
    IN  /\ last_message' = msg
        /\ \E ret \in CollaboratorCalls(st, msg) :
            /\ collaborator_return' = ret
            /\ LET out == generate_reply(st, msg, ret)
               IN  /\ current_step' = out.st.step
                   /\ global_tool_results' = out.st.results
                   /\ tool_executed' = out.st.executed
                   /\ reply' = out.reply
                   /\ dispatched' = out.dispatched
                   /\ tool_result' = out.tool_result
                   /\ chatting' = (out.reply.kind \notin {"stop", "raised"})
                   /\ UNCHANGED <<requests, stage_vars, fn_vars>>

GenerateReply ==
    /\ chatting
    /\ \E msg \in Messages : HandleMessage(msg)

\* the agent side stops answering (its reply budget is used up) and
\* initiate_chat returns
EndChat ==
    /\ chatting
    /\ chatting' = FALSE
    /\ UNCHANGED <<current_step, global_tool_results, tool_executed,
                   last_message, reply, dispatched, tool_result,
                   collaborator_return, requests, stage_vars, fn_vars>>

\* the messages of an agent that never sends an empty message
NonEmptyMessages == {m \in Messages : m.kind \in {"text", "call"}}

GenerateReplyNonEmpty ==
    /\ chatting
    /\ \E msg \in NonEmptyMessages : HandleMessage(msg)

\* the first detection request of the session
StartFirstDetection == requests = 0 /\ StartDetection

Next == StartDetection \/ GenerateReply \/ EndChat

Spec == Init /\ [][Next]_vars

\* the stages run in any order on any filename
StageSpec == Init /\ [][StageNext]_vars

\* one detection request with an agent that keeps sending non-empty
\* messages; the conversation loop hands every message to generate_reply
LiveNext == StartFirstDetection \/ GenerateReplyNonEmpty

LiveSpec ==
    /\ Init
    /\ [][LiveNext]_vars
    /\ WF_vars(StartFirstDetection)
    /\ WF_vars(GenerateReplyNonEmpty)

(***************************************************************************)
(* Properties                                                              *)
(***************************************************************************)
\* a step in which generate_reply handled a message
Handled == chatting /\ ~EndChat

\* the request of the last generate_reply passed all guards (lines 528-576 ran)
PassedGuards(r) == r.kind \in {"feedback", "final_feedback"}

StateUnchanged == UNCHANGED <<current_step, global_tool_results, tool_executed>>

Succeeded(results, t) == t \in DOMAIN results /\ results[t].success

\* the request names every required parameter of the tool it names
CarriesRequired(msg) ==
    \A i \in 1..Len(TOOL_REQUIRED_PARAMS[msg.name]) :
        TOOL_REQUIRED_PARAMS[msg.name][i] \in msg.params

KnownCall(msg) == msg.kind = "call" /\ msg.name \in ToolNames

SeqToSet(q) == {q[i] : i \in 1..Len(q)}

\* C1: at step n in 1..4, a dispatch of the step's tool that returns
\* success = true leaves current_step at exactly n + 1
C1_SuccessAdvancesOneStep ==
    [][(/\ Handled
        /\ current_step \in 1..4
        /\ dispatched' = STEP_TO_TOOL[current_step]
        /\ tool_result'.success)
       => current_step' = current_step + 1]_vars

\* C2: at step n in 1..5, a dispatch of the step's tool whose result has
\* success = false leaves current_step at n, and tool_results[tool] holds
\* that failed result afterwards
C2_FailureHoldsStepAndIsRecorded ==
    [][(/\ Handled
        /\ current_step \in 1..5
        /\ PassedGuards(reply')
        /\ reply'.tool = STEP_TO_TOOL[current_step]
        /\ ~tool_result'.success)
       => /\ current_step' = current_step
          /\ reply'.tool \in DOMAIN global_tool_results'
          /\ global_tool_results'[reply'.tool] = tool_result']_vars

\* C3: whenever current_step = 6, tool_results holds a successful record for
\* each of the five tools of STEP_TO_TOOL
C3_TerminalOnlyAfterAllFiveSucceeded ==
    current_step = 6 => \A t \in ToolNames : Succeeded(global_tool_results, t)

\* C4: a tool is dispatched only as the tool of the current step and only
\* when tool_results holds a success for the tool of every earlier step; a
\* request that does not pass the guards dispatches nothing
C4_StrictStepOrder ==
    [][Handled =>
        /\ (PassedGuards(reply') =>
              /\ current_step \in 1..5
              /\ reply'.tool = STEP_TO_TOOL[current_step]
              /\ dispatched' \in {NoTool, reply'.tool}
              /\ \A j \in 1..(current_step - 1) :
                    Succeeded(global_tool_results, STEP_TO_TOOL[j]))
        /\ (~PassedGuards(reply') => dispatched' = NoTool)]_vars

C4_Witness ==
    /\ dispatched = "tool_extract_features"
    /\ \A j \in 1..3 : Succeeded(global_tool_results, STEP_TO_TOOL[j])

\* C5 as stated: at step 1..5 every request naming a known tool other than
\* the step's tool gets the step-mismatch error naming the expected tool,
\* with no dispatch and current_step unchanged
C5_WrongToolAlwaysStepMismatch ==
    [][(/\ Handled
        /\ current_step \in 1..5
        /\ KnownCall(last_message')
        /\ last_message'.name /= STEP_TO_TOOL[current_step])
       => /\ reply'.kind = "step_error"
          /\ reply'.expected = STEP_TO_TOOL[current_step]
          /\ dispatched' = NoTool
          /\ current_step' = current_step]_vars

\* C5 amended: the same for every such request that carries all required
\* parameters of the tool it names
C5_WrongToolWithParamsStepMismatch ==
    [][(/\ Handled
        /\ current_step \in 1..5
        /\ KnownCall(last_message')
        /\ CarriesRequired(last_message')
        /\ last_message'.name /= STEP_TO_TOOL[current_step])
       => /\ reply'.kind = "step_error"
          /\ reply'.expected = STEP_TO_TOOL[current_step]
          /\ dispatched' = NoTool
          /\ current_step' = current_step]_vars

C5_Witness ==
    /\ reply.kind = "step_error"
    /\ current_step = 3
    /\ reply.expected = "tool_asr_speaker_diarization"
    /\ last_message.name = "tool_extract_features"
    /\ dispatched = NoTool

\* C6: a request naming a known tool whose parameters lack a required name
\* gets the missing-parameter error listing exactly the missing names, with
\* no dispatch and the pipeline state unchanged
C6_MissingParamsReported ==
    [][(/\ Handled
        /\ current_step \in 1..5
        /\ KnownCall(last_message')
        /\ ~CarriesRequired(last_message'))
       => /\ reply'.kind = "param_error"
          /\ SeqToSet(reply'.missing) =
                SeqToSet(TOOL_REQUIRED_PARAMS[last_message'.name]) \ last_message'.params
          /\ dispatched' = NoTool
          /\ StateUnchanged]_vars

\* C7: in a non-terminal state the first failing guard, in the order parse
\* failure, unknown tool, missing parameter, step mismatch, decides the
\* error, and only a request passing all four is dispatched
C7_FirstFailingGuardDecides ==
    [][(Handled /\ current_step \in 1..5) =>
        LET m == last_message'
        IN  IF m.kind /= "call" THEN reply'.kind = "format_error" /\ dispatched' = NoTool
            ELSE IF m.name \notin ToolNames THEN reply'.kind = "unknown_tool" /\ dispatched' = NoTool
            ELSE IF ~CarriesRequired(m) THEN reply'.kind = "param_error" /\ dispatched' = NoTool
            ELSE IF m.name /= STEP_TO_TOOL[current_step]
                 THEN reply'.kind = "step_error" /\ dispatched' = NoTool
            ELSE PassedGuards(reply')]_vars

\* C8: in a non-terminal state a message without a parseable request, an
\* empty one included, gets the format error for the current step; the state
\* is unchanged and the conversation goes on
C8_UnparseableGetsFormatError ==
    [][(/\ Handled
        /\ current_step \in 1..5
        /\ last_message'.kind \in {"blank", "text"})
       => /\ reply'.kind = "format_error"
          /\ reply'.expected = STEP_TO_TOOL[current_step]
          /\ StateUnchanged
          /\ chatting']_vars

\* C9: in a non-terminal state a parsed request naming none of the five
\* tools gets the unknown-tool error, with no dispatch and the pipeline
\* state unchanged
C9_UnknownToolRejected ==
    [][(/\ Handled
        /\ current_step \in 1..5
        /\ last_message'.kind = "call"
        /\ last_message'.name \notin ToolNames)
       => /\ reply'.kind = "unknown_tool"
          /\ reply'.tool = last_message'.name
          /\ dispatched' = NoTool
          /\ StateUnchanged]_vars

C9_Witness ==
    /\ reply.kind = "unknown_tool"
    /\ last_message.name = UnknownTool
    /\ current_step = 3
    /\ dispatched = NoTool

\* C10: once current_step = 6 no message is dispatched and current_step,
\* executed_tools and tool_results stay as they are until the next detection
\* request starts
C10_TerminalAbsorbing ==
    [][(current_step = 6 /\ ~StartDetection)
       => /\ StateUnchanged
          /\ (Handled => dispatched' = NoTool)]_vars

C10_Witness ==
    /\ current_step = 6
    /\ reply.kind = "complete"
    /\ last_message.kind = "call"
    /\ last_message.name = "tool_generate_reference_report"
    /\ last_message.params_kind = "map"
    /\ "audio_filename" \in last_message.params

\* C11: at current_step = 6 generate_reply returns no reply, ending the
\* conversation, exactly when the latest message contains the termination
\* marker; without the marker it returns the fixed completion message and
\* the conversation goes on
C11_TerminalStopsIffMarker ==
    [][(Handled /\ current_step = 6) =>
        IF last_message'.marker
        THEN reply'.kind = "stop" /\ ~chatting'
        ELSE reply'.kind = "complete" /\ chatting']_vars

\* C12: the feedback of a dispatch reports current_step as it is after the
\* dispatch and names STEP_TO_TOOL[current_step] as the next tool
C12_FeedbackMatchesState ==
    PassedGuards(reply) =>
        /\ reply.next_step = current_step
        /\ reply.expected = StepToolGet(current_step)

\* C13: a dispatched tool is recorded in tool_results under its name and in
\* executed_tools, whatever the collaborator did
C13_DispatchRecordedTwice ==
    dispatched /= NoTool =>
        /\ dispatched \in DOMAIN global_tool_results
        /\ InSeq(tool_executed, dispatched)

\* C14: executed_tools never holds a tool name twice
C14_ExecutedToolsDistinct ==
    \A i, j \in 1..Len(tool_executed) :
        tool_executed[i] = tool_executed[j] => i = j

\* a stored exception result next to an executed_tools entry: the step was
\* dispatched at least twice
C14_Witness ==
    /\ current_step = 2
    /\ dispatched = "tool_anti_spoof_detection"
    /\ global_tool_results["tool_anti_spoof_detection"].error = WrapperError
    /\ InSeq(tool_executed, "tool_anti_spoof_detection")

\* C15: a collaborator exception does not leave generate_reply; it becomes
\* a result with success = false and a non-empty error, stored in
\* tool_results, and current_step is unchanged
C15_CollaboratorExceptionAbsorbed ==
    [][(Handled /\ collaborator_return'.raised) =>
        /\ PassedGuards(reply')
        /\ ~tool_result'.success
        /\ tool_result'.error \notin {"", None}
        /\ dispatched' \in DOMAIN global_tool_results'
        /\ global_tool_results'[dispatched'] = tool_result'
        /\ current_step' = current_step]_vars

C15_Witness ==
    /\ collaborator_return = CollabRaise
    /\ dispatched = "tool_asr_speaker_diarization"
    /\ current_step = 3
    /\ reply.kind = "feedback"
    /\ global_tool_results["tool_asr_speaker_diarization"] = tool_result
    /\ ~tool_result.success

\* C16: whatever the latest message, a request that is not dispatched gets a
\* corrective reply or a stop signal, never an exception, and the pipeline
\* state is unchanged
C16_ProtocolErrorsAbsorbed ==
    [][(Handled /\ ~PassedGuards(reply')) =>
        /\ reply'.kind \in {"stop", "complete", "format_error", "unknown_tool",
                            "param_error", "step_error"}
        /\ StateUnchanged]_vars

\* C17: when the collaborator returns a failure, the result surfaced to the
\* agent carries the collaborator's error message unchanged and the step is
\* held
C17_CollaboratorErrorUnchanged ==
    [][(Handled /\ collaborator_return' = CollabFailure) =>
        /\ ~tool_result'.success
        /\ tool_result'.error = collaborator_return'.error
        /\ current_step' = current_step]_vars

\* the agent sends a well-formed request for the tool named in the latest
\* error or feedback
FollowRequest ==
    /\ chatting
    /\ reply.kind \in {"format_error", "step_error", "feedback"}
    /\ last_message'.kind = "call"
    /\ last_message'.name = reply.expected
    /\ last_message'.name \in ToolNames
    /\ last_message'.params_kind = "map"
    /\ CarriesRequired(last_message')

StageCalled == chatting /\ collaborator_return' /= NoCall
StageSucceeded == chatting /\ collaborator_return' = CollabSuccess

\* C18: if the agent again and again sends a well-formed request for the
\* tool named in the latest error or feedback, and a stage that is called
\* again and again succeeds again and again, current_step = 6 is reached.
\* current_step = 6 is absorbing within a request, so the hypotheses only
\* constrain the behaviours that stay below 6.
C18_EventuallyTerminal ==
    (/\ []<><<FollowRequest>>_vars
     /\ ([]<><<StageCalled>>_vars => []<><<StageSucceeded>>_vars))
    => <>(current_step = 6)

C18_Witness ==
    /\ current_step = 6
    /\ requests = 1
    /\ reply.kind = "final_feedback"
    /\ collaborator_return = CollabSuccess

\* C20: a detection request starts with current_step = 1 and empty
\* executed_tools and tool_results, whatever the request before it left
C20_RequestStartsFresh ==
    [][requests' = requests + 1 =>
        /\ current_step' = 1
        /\ tool_executed' = <<>>
        /\ global_tool_results' = EmptyDict]_vars

C20_Witness ==
    /\ requests = 2
    /\ chatting
    /\ last_message = NoMessage
    /\ current_step = 1
    /\ tool_executed = <<>>
    /\ global_tool_results = EmptyDict

\* C21: a request for the tool of step 2, 3, 4 or 5 whose parameter value
\* is not the one held by the stored step-1 result is not dispatched
C21_ForeignParameterRejected ==
    [][(/\ Handled
        /\ last_message'.kind = "call"
        /\ last_message'.name \in ToolNames \ {"tool_convert_audio"}
        /\ last_message'.value = ForeignValue)
       => /\ dispatched' = NoTool
          /\ collaborator_return' = NoCall
          /\ ~PassedGuards(reply')]_vars

\* C22: each persisted stage file of a filename holds exactly the output of
\* the most recent successful run of its stage for that filename
C22_FilesHoldLatestSuccess ==
    \A n \in AudioNames :
        /\ anti_spoof_json[n] = recent.anti_spoof[n]
        /\ asr_json[n] = recent.asr[n]
        /\ summary_json[n] = recent.features[n]

\* C23: when current_step = 6 is reached with every stored result a
\* success, the five tools were dispatched in the order of steps 1..5 and
\* the report stage has returned its success
C23_FiveToolsInOrder ==
    (/\ current_step = 6
     /\ \A t \in (DOMAIN global_tool_results) \cap ToolNames :
            global_tool_results[t].success)
    => /\ tool_executed = [n \in 1..5 |-> STEP_TO_TOOL[n]]
       /\ Succeeded(global_tool_results, "tool_generate_reference_report")

\* C24: a segment whose |MFCC mean| equals the threshold is flagged neither
\* by the per-segment analysis nor by the overall risk assessment, and one
\* whose |MFCC mean| is greater than the threshold is flagged by both
C24_MfccMeanTestStrict ==
    (fn_call.fn = "generate_reference_report" /\ fn_return.returned) =>
        \A i \in 1..Len(fn_call.features) :
            LET f == fn_call.features[i]
                in_analysis == "mfcc_mean" \in fn_return.segment_anomalies[i]
                in_assessment == <<i, "mfcc_mean">> \in fn_return.details
            IN  /\ (Abs(f.mfcc_mean) = ANOMALY_THRESHOLDS.mfcc_mean_abs
                        => ~in_analysis /\ ~in_assessment)
                /\ ((f.mfcc_success /\ Abs(f.mfcc_mean) > ANOMALY_THRESHOLDS.mfcc_mean_abs)
                        => in_analysis /\ in_assessment)

C24_Witness ==
    /\ fn_call.fn = "generate_reference_report"
    /\ fn_return.returned
    /\ Len(fn_call.features) = 2
    /\ fn_call.features[1].mfcc_success
    /\ fn_call.features[1].mfcc_mean = ANOMALY_THRESHOLDS.mfcc_mean_abs
    /\ fn_call.features[2].mfcc_success
    /\ fn_call.features[2].mfcc_mean = -(ANOMALY_THRESHOLDS.mfcc_mean_abs + 1)
    /\ fn_return.segment_anomalies[1] = {}
    /\ <<2, "mfcc_mean">> \in fn_return.details

IntentLayers ==
    <<"quit", "detection", "invalid_detection", "professional_question", "greeting", "chat">>

\* the input matches the layer
LayerMatches(layer, matches) ==
    CASE layer = "quit" -> "quit" \in matches
      [] layer = "detection" -> "audio_path" \in matches
      [] layer = "invalid_detection" ->
            "detect_keyword" \in matches /\ "audio_path" \notin matches
      [] layer = "professional_question" -> "knowledge_key" \in matches
      [] layer = "greeting" -> "greeting" \in matches
      [] layer = "chat" -> TRUE

\* C26: recognize_user_intent returns the intent of the first layer, in the
\* order quit > detection > invalid_detection > professional_question >
\* greeting > chat, that the input matches
C26_HighestPriorityIntentWins ==
    (fn_call.fn = "recognize_user_intent" /\ fn_return.returned) =>
        \E i \in 1..Len(IntentLayers) :
            /\ fn_return.intent = IntentLayers[i]
            /\ LayerMatches(IntentLayers[i], fn_call.matches)
            /\ \A j \in 1..(i - 1) : ~LayerMatches(IntentLayers[j], fn_call.matches)

C26_Witness ==
    /\ fn_call.fn = "recognize_user_intent"
    /\ fn_return.returned
    /\ fn_call.matches = {"quit", "audio_path", "greeting"}
    /\ fn_return.intent = "quit"

\* C27: normalize_path returns a normalized string and never raises,
\* whatever value reaches it
C27_NormalizePathNeverRaises ==
    (fn_call.fn = "normalize_path" /\ fn_return.returned) =>
        /\ ~fn_return.raised
        /\ fn_return.path /= <<>>

\* C28: current_step is an integer in 1..6
C28_StepInRange == current_step \in 1..6

C28_Witness ==
    /\ current_step = 6
    /\ requests = 1
    /\ Len(tool_executed) = 4
    /\ dispatched = "tool_extract_features"
    /\ collaborator_return = CollabSuccess

\* C29: every key of tool_results is one of the five tool identifiers
C29_ResultKeysAreTools == DOMAIN global_tool_results \subseteq ToolNames

\* C30: after the scorer found no suspicious segment and feature extraction
\* succeeded on that, report generation for the filename succeeds and the
\* report states that no suspicious segment was detected
C30_ZeroSegmentsReport ==
    [][(/\ last_run.stage = "features"
        /\ last_run.success
        /\ Len(last_run.segments) = 0
        /\ last_run'.stage = "report"
        /\ last_run'.name = last_run.name
        /\ last_run'.error /= "write_failed")
       => /\ last_run'.success
          /\ report_md'[last_run.name].exists
          /\ report_md'[last_run.name].no_suspicious
          /\ report_md'[last_run.name].total = 0]_vars

\* C31: the overall risk assessment of the report grades the risk by the
\* number of anomaly types it detected: two or more give high risk, exactly
\* one gives medium risk, none gives low risk.
AnomalyTypes == { d[2] : d \in fn_return.details }

C31_RiskGradedByAnomalyTypes ==
    (fn_call.fn = "generate_reference_report" /\ fn_return.returned) =>
        fn_return.risk = IF Cardinality(AnomalyTypes) >= 2 THEN "high"
                         ELSE IF Cardinality(AnomalyTypes) = 1 THEN "medium"
                         ELSE "low"

\* the maximal runs of consecutive windows at or above the threshold, as
\* pairs of first and last window index
SuspiciousWindow(i) == fn_call.scores[i] >= fn_call.threshold

MaximalRuns ==
    { r \in (1..Len(fn_call.scores)) \X (1..Len(fn_call.scores)) :
        /\ r[1] <= r[2]
        /\ \A i \in r[1]..r[2] : SuspiciousWindow(i)
        /\ r[1] = 1 \/ ~SuspiciousWindow(r[1] - 1)
        /\ r[2] = Len(fn_call.scores) \/ ~SuspiciousWindow(r[2] + 1) }

SegmentsReturned == fn_call.fn = "extract_suspicious_segments" /\ fn_return.returned

\* C32: every segment returned by extract_suspicious_segments has
\* start < end, for timestamps one hop apart and every threshold
C32_SegmentsNonEmpty ==
    SegmentsReturned =>
        \A i \in 1..Len(fn_return.segments) :
            fn_return.segments[i].start < fn_return.segments[i].end

\* a run of a single window, closed by a window below the threshold
C32_Witness ==
    /\ SegmentsReturned
    /\ Len(fn_call.scores) = 3
    /\ <<2, 2>> \in MaximalRuns
    /\ ~SuspiciousWindow(3)
    /\ Len(fn_return.segments) = 1

\* C33: extract_suspicious_segments returns exactly one segment per maximal
\* run of windows at or above the threshold, in time order; the segment
\* starts at the timestamp of the run's first window and ends at the
\* timestamp of its last window plus the hop size; a window below the
\* threshold lies in no segment
C33_OneSegmentPerRun ==
    SegmentsReturned =>
        /\ Len(fn_return.segments) = Cardinality(MaximalRuns)
        /\ \A r \in MaximalRuns :
            \E i \in 1..Len(fn_return.segments) :
                /\ i = Cardinality({ q \in MaximalRuns : q[1] <= r[1] })
                /\ fn_return.segments[i].start = fn_call.time_stamps[r[1]]
                /\ fn_return.segments[i].end = fn_call.time_stamps[r[2]] + HOP_SIZE
        /\ \A w \in 1..Len(fn_call.scores) :
            ~SuspiciousWindow(w) =>
                \A i \in 1..Len(fn_return.segments) :
                    \/ fn_call.time_stamps[w] + HOP_SIZE <= fn_return.segments[i].start
                    \/ fn_return.segments[i].end <= fn_call.time_stamps[w]

\* two runs, the first at the threshold exactly, the second open at the last
\* window
C33_Witness ==
    /\ SegmentsReturned
    /\ Len(fn_call.scores) = 4
    /\ fn_call.scores[1] = fn_call.threshold
    /\ MaximalRuns = {<<1, 1>>, <<3, 4>>}
    /\ Len(fn_return.segments) = 2

\* C34: the segments returned by extract_suspicious_segments are sorted by
\* start and pairwise disjoint: for consecutive segments s and t,
\* s.end <= t.start
C34_SegmentsSortedDisjoint ==
    SegmentsReturned =>
        \A i \in 1..(Len(fn_return.segments) - 1) :
            /\ fn_return.segments[i].start < fn_return.segments[i + 1].start
            /\ fn_return.segments[i].end <= fn_return.segments[i + 1].start

\* two segments separated by a single window below the threshold
C34_Witness ==
    /\ SegmentsReturned
    /\ MaximalRuns = {<<1, 2>>, <<4, 4>>}
    /\ Len(fn_return.segments) = 2
    /\ fn_return.segments[1].end = fn_return.segments[2].start - HOP_SIZE

\* C35: within one detection request current_step never decreases, whatever
\* messages generate_reply handles (protocol errors, failed dispatches,
\* retries and successes)
C35_StepNeverDecreases == [][Handled => current_step' >= current_step]_vars

\* a failed dispatch at step 3 after a failure at the same step: the retry
\* left the step where it was
C35_Witness ==
    /\ chatting
    /\ current_step = 3
    /\ dispatched = STEP_TO_TOOL[3]
    /\ collaborator_return = CollabFailure
    /\ STEP_TO_TOOL[3] \in DOMAIN global_tool_results
    /\ ~global_tool_results[STEP_TO_TOOL[3]].success
    /\ Len(tool_executed) = 3

\* the input that is a knowledge-base key and nothing else; every input that
\* contains the key matches at least the patterns this one matches
BareKey(k) == {k} \cup phrase_contains(k)

\* C36: every entry of the knowledge base is reachable: for each key of
\* PROFESSIONAL_KNOWLEDGE some input makes recognize_user_intent return
\* professional_question with that entry's content.  The layers are tested
\* in a fixed order and a match of an earlier layer wins, so an entry is
\* reachable exactly if the input made of its key alone reaches it.
C36_EveryKeyReachable ==
    (fn_call.fn = "recognize_user_intent" /\ fn_return.returned) =>
        \A k \in KnowledgeKeys :
            fn_call.text = BareKey(k) =>
                /\ fn_return.intent = "professional_question"
                /\ fn_return.reply = k

\* C37: normalize_path is idempotent: for every string p it accepts,
\* normalize_path(normalize_path(p)) = normalize_path(p), quote characters
\* or blanks inside the outer quotes included
C37_NormalizePathIdempotent ==
    (fn_call.fn = "normalize_path" /\ fn_return.returned /\ ~fn_return.raised) =>
        normalize_path(JsonValue("string", fn_return.path)).path = fn_return.path

====
